---- MODULE Spec2Model ----
(***************************************************************************)
(* Model of src/main.py: class QLApontamentos (get_data, clean_data,       *)
(* sum_hours, format_hours, add_expected_hours, export_to_pdf) and the     *)
(* __main__ block that chains them.                                        *)
(*                                                                         *)
(* Representation                                                          *)
(*   string      a sequence of one-character strings, <<"a", ";", "b">>    *)
(*   cell        a record [k, v]: k is the kind of value held              *)
(*                 "str"  v = a string          "nan" v = <<>> (missing)   *)
(*                 "list" v = a sequence of strings (inside clean_data)    *)
(*                 "num"  v = a number          "ts"  v = an instant       *)
(*                 "nat"  v = 0 (pandas NaT)    "text" v = 0 (unparseable) *)
(*                 "datestr" v = an instant (text that parses as a date)   *)
(*   duration    fractional hours, a whole number t of ticks of            *)
(*               1/2^HourBits hour: the Python float t / 2^HourBits.       *)
(*               These floats, their sums and differences, and their       *)
(*               fractions times 60 are exact in binary floating point,    *)
(*               so the arithmetic of sum_hours and format_hours on them   *)
(*               is the arithmetic of the integers t.  A duration that is  *)
(*               not a multiple of a tick (1.2 hours) is not represented   *)
(*   instant     a Timestamp or datetime, held as a whole number of parts  *)
(*               of 1/DayParts day since 2025-01-01 00:00 (2025-02-12 is   *)
(*               42 * DayParts, 2025-06-30 is 180 * DayParts)              *)
(*   DataFrame   [columns: sequence of names, index: sequence of labels,   *)
(*                rows: sequence of functions column -> cell]              *)
(*   object      DataFrames live in heap (a sequence); df, self_data and   *)
(*               total_hours are references (positions of heap, 0 = None)  *)
(***************************************************************************)
EXTENDS Integers, Sequences, FiniteSets

VARIABLES pc, disk, now, heap, self_data, df, total_hours,
          start_date, end_date, stdout, pdf, calls, exit_code

vars == <<pc, disk, now, heap, self_data, df, total_hours,
          start_date, end_date, stdout, pdf, calls, exit_code>>

(***************************************************************************)
(* Bounds of the model                                                     *)
(***************************************************************************)
MaxLen == 2        \* longest raw member field, in characters
MaxRows == 2       \* most rows of a raw table
MaxTime == 2       \* instants 0..MaxTime in the aggregation universe
HourBits == 7      \* a tick is 1/2^HourBits hour: resolution of a duration
DayParts == 2      \* parts per day: resolution of an instant
MaxWeeks == 7      \* the clock runs over 0..MaxWeeks weeks

(***************************************************************************)
(* Program constants                                                       *)
(***************************************************************************)
MinutesPerHour == 60   \* "* 60" in format_hours
DaysPerWeek == 7       \* "// 7" in add_expected_hours
HoursPerWeek == 6      \* "* 6" in add_expected_hours
VacationWeeks == 1     \* "weeks - 1" in add_expected_hours
MainStartDay == 0      \* pd.Timestamp("2025-01-01"), in days
MainEndDay == 180      \* pd.Timestamp("2025-06-30"), in days

RECURSIVE Pow2(_)
Pow2(n) == IF n = 0 THEN 1 ELSE 2 * Pow2(n - 1)

TicksPerHour == Pow2(HourBits)

RawMemberColumn == "Membro - name"

\* the list of line 42
RequiredColumns ==
  <<"Membro", "Categoria", "Reunião", "Atribuição Interna",
    "Data - start", "Data - end", "Duração", "Detalhamento">>

\* the header of a well-formed input sheet
SheetColumns ==
  <<RawMemberColumn, "Categoria", "Reunião", "Atribuição Interna",
    "Data - start", "Data - end", "Duração", "Detalhamento">>

Range(s) == {s[i] : i \in DOMAIN s}

(***************************************************************************)
(* Cells                                                                   *)
(***************************************************************************)
Str(s) == [k |-> "str", v |-> s]
NaN == [k |-> "nan", v |-> <<>>]
Num(n) == [k |-> "num", v |-> n]
Ts(d) == [k |-> "ts", v |-> d]
NaT == [k |-> "nat", v |-> 0]
DateStr(d) == [k |-> "datestr", v |-> d]
Text == [k |-> "text", v |-> 0]

(***************************************************************************)
(* Python str operations                                                   *)
(***************************************************************************)
Separator == ";"
Whitespace == {" "}

\* code point order of the characters of the model's alphabet
CharOrd(c) ==
  CASE c = " " -> 32
    [] c = ";" -> 59
    [] c = "a" -> 97
    [] c = "b" -> 98
    [] c = "c" -> 99

\* s < t for Python strings
RECURSIVE StrLess(_, _)
StrLess(s, t) ==
  IF t = <<>> THEN FALSE
  ELSE IF s = <<>> THEN TRUE
  ELSE IF Head(s) = Head(t) THEN StrLess(Tail(s), Tail(t))
  ELSE CharOrd(Head(s)) < CharOrd(Head(t))

\* a split that drops empty segments, as str.split() without a separator does
RECURSIVE split_skip_empty(_)
split_skip_empty(s) ==
  IF s = <<>> THEN <<>>
  ELSE IF \A i \in DOMAIN s : s[i] # Separator THEN <<s>>
  ELSE LET p == CHOOSE i \in DOMAIN s :
                  s[i] = Separator /\ \A j \in 1..(i - 1) : s[j] # Separator
       IN  (IF p = 1 THEN <<>> ELSE <<SubSeq(s, 1, p - 1)>>)
             \o split_skip_empty(SubSeq(s, p + 1, Len(s)))

\* re.split / str.split on the separator: n separators give n + 1 segments
RECURSIVE split(_)
split(s) ==
  IF \A i \in DOMAIN s : s[i] # Separator THEN <<s>>
  ELSE LET p == CHOOSE i \in DOMAIN s :
                  s[i] = Separator /\ \A j \in 1..(i - 1) : s[j] # Separator
       IN  <<SubSeq(s, 1, p - 1)>> \o split(SubSeq(s, p + 1, Len(s)))

RECURSIVE lstrip(_)
lstrip(s) ==
  IF s # <<>> /\ Head(s) \in Whitespace THEN lstrip(Tail(s)) ELSE s

RECURSIVE rstrip(_)
rstrip(s) ==
  IF s # <<>> /\ s[Len(s)] \in Whitespace
  THEN rstrip(SubSeq(s, 1, Len(s) - 1)) ELSE s

strip(s) == rstrip(lstrip(s))

(***************************************************************************)
(* pandas operations used by clean_data                                    *)
(***************************************************************************)
\* Series.str.split: a string becomes the list of its segments, a missing
\* value stays missing
str_split(c) == IF c.k = "str" THEN [k |-> "list", v |-> split(c.v)] ELSE NaN

\* Series.str.strip
str_strip(c) == IF c.k = "str" THEN Str(strip(c.v)) ELSE NaN

\* pd.to_datetime(errors='coerce') of one cell
to_datetime(c) ==
  IF c.k \in {"ts", "datestr"} THEN Ts(c.v) ELSE NaT

\* DataFrame.rename(columns={'Membro - name': 'Membro'}, inplace=True)
RenameColumn(c) == IF c = RawMemberColumn THEN "Membro" ELSE c

RenameBack(c, columns) ==
  IF c = "Membro" /\ RawMemberColumn \in Range(columns) THEN RawMemberColumn ELSE c

rename(data) ==
  [columns |-> [i \in DOMAIN data.columns |-> RenameColumn(data.columns[i])],
   index |-> data.index,
   rows |-> [i \in DOMAIN data.rows |->
               [c \in {RenameColumn(x) : x \in Range(data.columns)} |->
                  data.rows[i][RenameBack(c, data.columns)]]]]

\* data[[...]] raises KeyError when a listed column is absent
MissingColumns(data) == Range(RequiredColumns) \ Range(data.columns)

project(data) ==
  [columns |-> RequiredColumns,
   index |-> data.index,
   rows |-> [i \in DOMAIN data.rows |->
               [c \in Range(RequiredColumns) |-> data.rows[i][c]]]]

\* .str raises AttributeError on a column that holds no strings at all: a
\* non-empty column of missing values only is read as float64
StrAccessorRaises(data) ==
  /\ data.rows # <<>>
  /\ \A i \in DOMAIN data.rows : data.rows[i]["Membro"].k # "str"

\* one row of DataFrame.explode('Membro'): a list gives one row per element,
\* in order, each under the label of the row it came from; an empty list
\* gives one row holding a missing value
ExplodeRow(row, label) ==
  LET c == row["Membro"]
  IN  IF c.k = "list" /\ c.v = <<>>
      THEN <<[label |-> label, row |-> [row EXCEPT !["Membro"] = NaN]]>>
      ELSE IF c.k = "list"
      THEN [j \in DOMAIN c.v |->
              [label |-> label, row |-> [row EXCEPT !["Membro"] = Str(c.v[j])]]]
      ELSE <<[label |-> label, row |-> row]>>

RECURSIVE ExplodeFrom(_, _)
ExplodeFrom(data, i) ==
  IF i > Len(data.rows) THEN <<>>
  ELSE ExplodeRow(data.rows[i], data.index[i]) \o ExplodeFrom(data, i + 1)

explode(data) ==
  LET out == ExplodeFrom(data, 1)
  IN  [columns |-> data.columns,
       index |-> [i \in DOMAIN out |-> out[i].label],
       rows |-> [i \in DOMAIN out |-> out[i].row]]

\* data['Membro'] = data['Membro'].str.split(r'[;]')
split_members(data) ==
  [data EXCEPT !.rows =
     [i \in DOMAIN data.rows |->
        [data.rows[i] EXCEPT !["Membro"] = str_split(@)]]]

\* data['Membro'] = data['Membro'].str.strip()
strip_members(data) ==
  [data EXCEPT !.rows =
     [i \in DOMAIN data.rows |->
        [data.rows[i] EXCEPT !["Membro"] = str_strip(@)]]]

\* data[col] = pd.to_datetime(data[col], errors='coerce')
parse_dates(data, col) ==
  [data EXCEPT !.rows =
     [i \in DOMAIN data.rows |->
        [data.rows[i] EXCEPT ![col] = to_datetime(@)]]]

\* clean_data raises (KeyError at line 42, AttributeError at line 43)
clean_data_raises(data) ==
  IF MissingColumns(rename(data)) # {} THEN TRUE
  ELSE StrAccessorRaises(rename(data))

\* the DataFrame clean_data returns (lines 42-48)
clean_data(data) ==
  LET projected == project(rename(data))
      exploded == explode(split_members(projected))
      stripped == strip_members(exploded)
  IN  parse_dates(parse_dates(stripped, "Data - start"), "Data - end")

(***************************************************************************)
(* sum_hours                                                               *)
(***************************************************************************)
\* a comparison of a datetime cell with a Timestamp; NaT compares False
GreaterEqual(c, t) == c.k = "ts" /\ c.v >= t
LessThan(c, t) == c.k = "ts" /\ c.v < t
LessEqual(c, t) == c.k = "ts" /\ c.v <= t

\* the mask of line 58
mask(data, start, end) ==
  [i \in DOMAIN data.rows |->
     GreaterEqual(data.rows[i]["Data - start"], start)
       /\ LessEqual(data.rows[i]["Data - start"], end)]

\* data[mask]
filter(data, m) ==
  LET keep == SelectSeq([i \in DOMAIN data.rows |-> i], LAMBDA i : m[i])
  IN  [columns |-> data.columns,
       index |-> [j \in DOMAIN keep |-> data.index[keep[j]]],
       rows |-> [j \in DOMAIN keep |-> data.rows[keep[j]]]]

\* the group keys of groupby('Membro'): the distinct values of the column,
\* missing values dropped (dropna=True)
GroupKeys(data) ==
  {data.rows[i]["Membro"].v :
     i \in {j \in DOMAIN data.rows : data.rows[j]["Membro"].k = "str"}}

\* groupby sorts the keys (sort=True)
RECURSIVE SortKeys(_)
SortKeys(S) ==
  IF S = {} THEN <<>>
  ELSE LET m == CHOOSE x \in S : \A y \in S \ {x} : StrLess(x, y)
       IN  <<m>> \o SortKeys(S \ {m})

\* ['Duração'].sum() of one group: the float sum of its cells, exact for
\* whole numbers of ticks in whatever order they are added
RECURSIVE GroupSum(_, _, _)
GroupSum(data, key, i) ==
  IF i > Len(data.rows) THEN 0
  ELSE (IF data.rows[i]["Membro"].k = "str" /\ data.rows[i]["Membro"].v = key
        THEN data.rows[i]["Duração"].v ELSE 0)
       + GroupSum(data, key, i + 1)

\* filtered_data.groupby('Membro')['Duração'].sum().reset_index()
groupby_sum(data) ==
  LET keys == SortKeys(GroupKeys(data))
  IN  [columns |-> <<"Membro", "Duração">>,
       index |-> [i \in DOMAIN keys |-> i - 1],
       rows |-> [i \in DOMAIN keys |->
                   [c \in {"Membro", "Duração"} |->
                      IF c = "Membro" THEN Str(keys[i])
                      ELSE Num(GroupSum(data, keys[i], 1))]]]

Perms(n) ==
  {p \in [1..n -> 1..n] : \A i, j \in 1..n : i # j => p[i] # p[j]}

reorder(data, p) ==
  [columns |-> data.columns,
   index |-> [i \in DOMAIN p |-> data.index[p[i]]],
   rows |-> [i \in DOMAIN p |-> data.rows[p[i]]]]

NonIncreasing(data) ==
  \A i \in 1..(Len(data.rows) - 1) :
    data.rows[i]["Duração"].v >= data.rows[i + 1]["Duração"].v

\* sort_values(by='Duração', ascending=False) with the default
\* kind='quicksort', which is not a stable sort: the rows come out in
\* non-increasing order, rows of equal value in an order the numpy build
\* decides.  The set of the orders it may return.
sort_values(data) ==
  {t \in {reorder(data, p) : p \in Perms(Len(data.rows))} :
     NonIncreasing(t)}

\* the DataFrames sum_hours may return (lines 58-62)
sum_hours(data, start, end) ==
  sort_values(groupby_sum(filter(data, mask(data, start, end))))

(***************************************************************************)
(* format_hours                                                            *)
(***************************************************************************)
\* int(x) of a rational n / d with d > 0: truncation toward zero
int(n, d) == IF n >= 0 THEN n \div d ELSE -((-n) \div d)

Digit(n) ==
  CASE n = 0 -> "0" [] n = 1 -> "1" [] n = 2 -> "2" [] n = 3 -> "3"
    [] n = 4 -> "4" [] n = 5 -> "5" [] n = 6 -> "6" [] n = 7 -> "7"
    [] n = 8 -> "8" [] n = 9 -> "9"

RECURSIVE Digits(_)
Digits(n) == IF n < 10 THEN <<Digit(n)>> ELSE Digits(n \div 10) \o <<Digit(n % 10)>>

\* format(n, "d")
FormatInt(n) == IF n < 0 THEN <<"-">> \o Digits(-n) ELSE Digits(n)

\* format(n, "02d"): zero-padded to a width of two
FormatInt02(n) ==
  IF n < 0 THEN <<"-">> \o Digits(-n)
  ELSE IF n < 10 THEN <<"0">> \o Digits(n) ELSE Digits(n)

\* int(x) for the float x = ticks / TicksPerHour
HoursPart(ticks) == int(ticks, TicksPerHour)

\* round half to even of n / d, for n >= 0 and d > 0
Round(n, d) ==
  LET q == n \div d
      r == n % d
  IN  IF 2 * r < d THEN q
      ELSE IF 2 * r > d THEN q + 1
      ELSE IF q % 2 = 0 THEN q ELSE q + 1

\* int((x - int(x)) * 60) for the float x = ticks / TicksPerHour: the
\* difference and the product are exact, int() truncates toward zero
MinutesPart(ticks) ==
  int((ticks - HoursPart(ticks) * TicksPerHour) * MinutesPerHour, TicksPerHour)

FormatDuration(ticks) ==
  FormatInt(HoursPart(ticks)) \o <<"h">> \o FormatInt02(MinutesPart(ticks))
    \o <<"m", "i", "n">>

RenameDuration(c) == IF c = "Duração" THEN "Total de Horas" ELSE c

\* the DataFrame format_hours leaves in place of its argument (lines 70-72)
format_hours(data) ==
  [columns |-> [i \in DOMAIN data.columns |-> RenameDuration(data.columns[i])],
   index |-> data.index,
   rows |-> [i \in DOMAIN data.rows |->
               [c \in {RenameDuration(x) : x \in Range(data.columns)} |->
                  IF c = "Total de Horas"
                  THEN Str(FormatDuration(data.rows[i]["Duração"].v))
                  ELSE data.rows[i][c]]]]

(***************************************************************************)
(* add_expected_hours                                                      *)
(***************************************************************************)
\* (now - start_date).days: timedelta.days is the floor of the difference
TimedeltaDays(t, start) == (t - start) \div DayParts

\* the weeks rounded up instead of down
WeeksRoundedUp(t, start) ==
  -((-TimedeltaDays(t, start)) \div DaysPerWeek)

Weeks(t, start) == TimedeltaDays(t, start) \div DaysPerWeek

ExpectedHours(t, start) == (Weeks(t, start) - VacationWeeks) * HoursPerWeek

\* data['Horas Esperadas'] = expected_hours (lines 81-85)
add_expected_hours(data, start, t) ==
  [columns |-> IF "Horas Esperadas" \in Range(data.columns) THEN data.columns
               ELSE Append(data.columns, "Horas Esperadas"),
   index |-> data.index,
   rows |-> [i \in DOMAIN data.rows |->
               [c \in Range(data.columns) \cup {"Horas Esperadas"} |->
                  IF c = "Horas Esperadas" THEN Num(ExpectedHours(t, start))
                  ELSE data.rows[i][c]]]]

(***************************************************************************)
(* The program state and its steps                                         *)
(*                                                                         *)
(*   pc         the statement of the __main__ block about to run           *)
(*   disk       the input file: [exists, parses, table]                    *)
(*   now        what datetime.now() returns during the run                 *)
(*   heap       the DataFrame objects created so far                       *)
(*   self_data  data_manager.data; df, total_hours: the block's variables  *)
(*   stdout     what has been printed; pdf: the state of the output file   *)
(*   calls      the methods invoked so far, in order                       *)
(*   exit_code  <<>> while the interpreter runs, <<status>> once it exited *)
(***************************************************************************)
None == 0

\* line 125: df = data_manager.get_data(file_path)
get_data_missing ==
  /\ pc = "get_data" /\ ~disk.exists
  /\ pc' = "except"
  /\ calls' = Append(calls, "get_data")
  /\ UNCHANGED <<disk, now, heap, self_data, df, total_hours, start_date,
                 end_date, stdout, pdf, exit_code>>

get_data_unreadable ==
  /\ pc = "get_data" /\ disk.exists /\ ~disk.parses
  /\ pc' = "except"
  /\ calls' = Append(calls, "get_data")
  /\ UNCHANGED <<disk, now, heap, self_data, df, total_hours, start_date,
                 end_date, stdout, pdf, exit_code>>

get_data_returns ==
  /\ pc = "get_data" /\ disk.exists /\ disk.parses
  /\ heap' = Append(heap, disk.table)
  /\ self_data' = Len(heap) + 1
  /\ df' = Len(heap) + 1
  /\ pc' = "clean_data"
  /\ calls' = Append(calls, "get_data")
  /\ UNCHANGED <<disk, now, total_hours, start_date, end_date, stdout, pdf,
                 exit_code>>

\* a clean_data that swallows its exception and hands the table on
clean_data_swallows ==
  /\ pc = "clean_data" /\ clean_data_raises(heap[df])
  /\ heap' = [heap EXCEPT ![df] = rename(@)]
  /\ pc' = "sum_hours"
  /\ calls' = Append(calls, "clean_data")
  /\ UNCHANGED <<disk, now, self_data, df, total_hours, start_date, end_date,
                 stdout, pdf, exit_code>>

\* line 126: df = data_manager.clean_data(df).  Line 41 renames the column
\* of the object passed in, in place, before anything can raise.
clean_data_fails ==
  /\ pc = "clean_data" /\ clean_data_raises(heap[df])
  /\ heap' = [heap EXCEPT ![df] = rename(@)]
  /\ pc' = "except"
  /\ calls' = Append(calls, "clean_data")
  /\ UNCHANGED <<disk, now, self_data, df, total_hours, start_date, end_date,
                 stdout, pdf, exit_code>>

clean_data_returns ==
  /\ pc = "clean_data" /\ ~clean_data_raises(heap[df])
  /\ heap' = Append([heap EXCEPT ![df] = rename(@)], clean_data(heap[df]))
  /\ df' = Len(heap) + 1
  /\ pc' = "sum_hours"
  /\ calls' = Append(calls, "clean_data")
  /\ UNCHANGED <<disk, now, self_data, total_hours, start_date, end_date,
                 stdout, pdf, exit_code>>

\* lines 127-129: total_hours = data_manager.sum_hours(df, start_date, end_date)
sum_hours_returns ==
  /\ pc = "sum_hours"
  /\ \E t \in sum_hours(heap[df], start_date, end_date) :
       heap' = Append(heap, t)
  /\ total_hours' = Len(heap) + 1
  /\ pc' = "format_hours"
  /\ calls' = Append(calls, "sum_hours")
  /\ UNCHANGED <<disk, now, self_data, df, start_date, end_date, stdout, pdf,
                 exit_code>>

\* line 130: total_hours = data_manager.format_hours(total_hours), in place
format_hours_returns ==
  /\ pc = "format_hours"
  /\ heap' = [heap EXCEPT ![total_hours] = format_hours(@)]
  /\ pc' = "add_expected_hours"
  /\ calls' = Append(calls, "format_hours")
  /\ UNCHANGED <<disk, now, self_data, df, total_hours, start_date, end_date,
                 stdout, pdf, exit_code>>

\* line 131: total_hours = data_manager.add_expected_hours(total_hours,
\* start_date), in place
add_expected_hours_returns ==
  /\ pc = "add_expected_hours"
  /\ heap' = [heap EXCEPT ![total_hours] = add_expected_hours(@, start_date, now)]
  /\ pc' = "print_df"
  /\ calls' = Append(calls, "add_expected_hours")
  /\ UNCHANGED <<disk, now, self_data, df, total_hours, start_date, end_date,
                 stdout, pdf, exit_code>>

\* line 132: print(df)
print_df ==
  /\ pc = "print_df"
  /\ stdout' = Append(stdout, "df")
  /\ pc' = "print_total_hours"
  /\ UNCHANGED <<disk, now, heap, self_data, df, total_hours, start_date,
                 end_date, pdf, calls, exit_code>>

\* line 133: print(total_hours)
print_total_hours ==
  /\ pc = "print_total_hours"
  /\ stdout' = Append(stdout, "total_hours")
  /\ pc' = "export_to_pdf"
  /\ UNCHANGED <<disk, now, heap, self_data, df, total_hours, start_date,
                 end_date, pdf, calls, exit_code>>

\* line 134: data_manager.export_to_pdf(total_hours, pdf_path)
export_to_pdf_returns ==
  /\ pc = "export_to_pdf"
  /\ pdf' = "written"
  /\ pc' = "print_exported"
  /\ calls' = Append(calls, "export_to_pdf")
  /\ UNCHANGED <<disk, now, heap, self_data, df, total_hours, start_date,
                 end_date, stdout, exit_code>>

\* the output path cannot be written: PdfPages or savefig raises, leaving no
\* file or a file that is not a whole document
export_to_pdf_fails ==
  /\ pc = "export_to_pdf"
  /\ pdf' \in {"absent", "partial"}
  /\ pc' = "except"
  /\ calls' = Append(calls, "export_to_pdf")
  /\ UNCHANGED <<disk, now, heap, self_data, df, total_hours, start_date,
                 end_date, stdout, exit_code>>

\* line 135: print(f"Relatório exportado para '{pdf_path}'.")
print_exported ==
  /\ pc = "print_exported"
  /\ stdout' = Append(stdout, "exported")
  /\ pc' = "end"
  /\ UNCHANGED <<disk, now, heap, self_data, df, total_hours, start_date,
                 end_date, pdf, calls, exit_code>>

\* lines 136-137: except Exception as e: print(f"Erro: {e}")
except ==
  /\ pc = "except"
  /\ stdout' = Append(stdout, "Erro")
  /\ pc' = "end"
  /\ UNCHANGED <<disk, now, heap, self_data, df, total_hours, start_date,
                 end_date, pdf, calls, exit_code>>

\* the script has no statement after the try block: the interpreter exits
\* with status 0
exit ==
  /\ pc = "end"
  /\ exit_code' = <<0>>
  /\ pc' = "done"
  /\ UNCHANGED <<disk, now, heap, self_data, df, total_hours, start_date,
                 end_date, stdout, pdf, calls>>

Next ==
  \/ get_data_missing \/ get_data_unreadable \/ get_data_returns
  \/ clean_data_fails \/ clean_data_returns
  \/ sum_hours_returns \/ format_hours_returns \/ add_expected_hours_returns
  \/ print_df \/ print_total_hours
  \/ export_to_pdf_returns \/ export_to_pdf_fails
  \/ print_exported \/ except \/ exit

(***************************************************************************)
(* Input universes                                                         *)
(***************************************************************************)
SeqsUpTo(S, n) == UNION {[1..k -> S] : k \in 0..n}

\* a duration of h hours and n/d of an hour, d a power of two that divides
\* TicksPerHour
Dur(h, n, d) == h * TicksPerHour + n * (TicksPerHour \div d)

Filler == Str(<<"c">>)

\* a sheet row: spec = <<member cell, start cell, duration>>
SheetRow(columns, spec) ==
  [c \in Range(columns) |->
     CASE c \in {"Membro", RawMemberColumn} -> spec[1]
       [] c \in {"Data - start", "Data - end"} -> spec[2]
       [] c = "Duração" -> Num(spec[3])
       [] OTHER -> Filler]

\* what pd.read_excel returns for a sheet: a RangeIndex 0..n-1
Sheet(columns, specs) ==
  [columns |-> columns,
   index |-> [i \in DOMAIN specs |-> i - 1],
   rows |-> [i \in DOMAIN specs |-> SheetRow(columns, specs[i])]]

Sheets(columns, rowSpecs) ==
  {Sheet(columns, specs) : specs \in SeqsUpTo(rowSpecs, MaxRows)}

EmptySheet == Sheet(SheetColumns, <<>>)

Loaded(t) == [exists |-> TRUE, parses |-> TRUE, table |-> t]
MissingFile == [exists |-> FALSE, parses |-> FALSE, table |-> EmptySheet]
CorruptFile == [exists |-> TRUE, parses |-> FALSE, table |-> EmptySheet]

Without(columns, c) == SelectSeq(columns, LAMBDA x : x # c)

\* headers of the main run: the expected sheet, a sheet whose member column
\* is already named 'Membro', and the sheets that lack one column
MainHeaders ==
  {SheetColumns, RequiredColumns}
    \cup {Without(SheetColumns, c) : c \in Range(SheetColumns)}

MainStart == MainStartDay * DayParts
MainEnd == MainEndDay * DayParts

MainRowSpecs ==
  {Str(<<"a">>), Str(<<"b", ";", " ", "a">>), NaN}
    \X {DateStr(MainEnd), Ts(MainEnd + 1), Text}
    \X {Dur(1, 1, 2)}

MainNows == {MainStart + 6 * DaysPerWeek * DayParts,
             MainStart + 8 * DaysPerWeek * DayParts - 1}

\* member fields of the cleaning universe: every string of at most MaxLen
\* characters over a letter, the separator and a blank, and the missing value
CleanChars == {"a", ";", " "}

CleanRowSpecs ==
  ({Str(s) : s \in SeqsUpTo(CleanChars, MaxLen)} \cup {NaN})
    \X {Ts(0)} \X {Dur(1, 0, 1)}

\* rows of the aggregation universe
AggRowSpecs ==
  {Str(<<"a">>), Str(<<"b">>), Str(<<"b", ";", "a">>)}
    \X ({Ts(t) : t \in 0..MaxTime} \cup {Text})
    \X {Dur(0, 1, 2), Dur(1, 0, 1)}

\* the aggregate tables of the formatting universe: what sum_hours may
\* return for members "a", "aa", ... with these totals
FmtDurations ==
  {0, Dur(1, 1, 16), Dur(1, 127, 128), Dur(7, 1, 2), Dur(12, 1, 128)}

FmtName(i) == [j \in 1..i |-> "a"]

FmtGrouped(durs) ==
  [columns |-> <<"Membro", "Duração">>,
   index |-> [i \in DOMAIN durs |-> i - 1],
   rows |-> [i \in DOMAIN durs |->
               [c \in {"Membro", "Duração"} |->
                  IF c = "Membro" THEN Str(FmtName(i)) ELSE Num(durs[i])]]]

FmtTables ==
  UNION {sort_values(FmtGrouped(durs)) : durs \in SeqsUpTo(FmtDurations, MaxRows)}

FmtStarts == {0, 1, DaysPerWeek * DayParts}

FmtNows == 0..(MaxWeeks * DaysPerWeek * DayParts)

(***************************************************************************)
(* Specifications                                                          *)
(***************************************************************************)
\* the __main__ block, from its first statement
Init ==
  /\ pc = "get_data"
  /\ disk \in {MissingFile, CorruptFile}
       \cup {Loaded(t) : t \in UNION {Sheets(h, MainRowSpecs) : h \in MainHeaders}}
  /\ now \in MainNows
  /\ heap = <<>>
  /\ self_data = None /\ df = None /\ total_hours = None
  /\ start_date = MainStart /\ end_date = MainEnd
  /\ stdout = <<>> /\ pdf = "absent" /\ calls = <<>> /\ exit_code = <<>>

Spec == Init /\ [][Next]_vars

\* a loaded table, about to be cleaned
InitLoaded(tables, starts, ends, nows) ==
  /\ pc = "clean_data"
  /\ \E t \in tables : disk = Loaded(t) /\ heap = <<t>>
  /\ now \in nows
  /\ self_data = 1 /\ df = 1 /\ total_hours = None
  /\ start_date \in starts /\ end_date \in ends
  /\ stdout = <<>> /\ pdf = "absent" /\ calls = <<"get_data">>
  /\ exit_code = <<>>

\* clean_data on every table of the cleaning universe
InitClean ==
  InitLoaded(Sheets(SheetColumns, CleanRowSpecs), {MainStart}, {MainEnd},
             {MainStart})

NextClean == clean_data_fails \/ clean_data_returns

SpecClean == InitClean /\ [][NextClean]_vars

\* clean_data, then sum_hours over every filter range
InitAgg ==
  InitLoaded(Sheets(SheetColumns, AggRowSpecs), 0..MaxTime, 0..MaxTime, {0})

NextAgg == clean_data_returns \/ sum_hours_returns

SpecAgg == InitAgg /\ [][NextAgg]_vars

\* format_hours, then add_expected_hours, on an aggregate table
InitFmt ==
  /\ pc = "format_hours"
  /\ disk = MissingFile
  /\ now \in FmtNows
  /\ \E t \in FmtTables : heap = <<t>>
  /\ self_data = None /\ df = None /\ total_hours = 1
  /\ start_date \in FmtStarts /\ end_date = MainEnd
  /\ stdout = <<>> /\ pdf = "absent" /\ calls = <<>> /\ exit_code = <<>>

NextFmt == format_hours_returns \/ add_expected_hours_returns

SpecFmt == InitFmt /\ [][NextFmt]_vars

(***************************************************************************)
(* Properties                                                              *)
(***************************************************************************)
Last(s) == s[Len(s)]

RECURSIVE SumOver(_, _)
SumOver(S, f) ==
  IF S = {} THEN 0
  ELSE LET x == CHOOSE y \in S : TRUE IN f[x] + SumOver(S \ {x}, f)

\* the cleaned table and the aggregate once sum_hours has returned
Cleaned == heap[df]
Aggregate == heap[total_hours]

\* the cleaned rows of a member whose start date lies in the filter range
Matching(member) ==
  {i \in DOMAIN Cleaned.rows :
     /\ Cleaned.rows[i]["Membro"].k = "str"
     /\ Cleaned.rows[i]["Membro"].v = member
     /\ Cleaned.rows[i]["Data - start"].k = "ts"
     /\ start_date <= Cleaned.rows[i]["Data - start"].v
     /\ Cleaned.rows[i]["Data - start"].v <= end_date}

MatchingTotal(member) ==
  SumOver(Matching(member),
          [i \in DOMAIN Cleaned.rows |-> Cleaned.rows[i]["Duração"].v])

\* C1: the aggregate sum_hours returns holds one row for each member that has
\* a cleaned row with start_date <= start <= end_date, and that row's
\* duration is the sum of the durations of exactly those rows; a row whose
\* start is NaT is in no member's total.
C1_SumOfMatchingRows ==
  pc = "format_hours" =>
    /\ \A i \in DOMAIN Aggregate.rows :
         /\ Matching(Aggregate.rows[i]["Membro"].v) # {}
         /\ Aggregate.rows[i]["Duração"].v
              = MatchingTotal(Aggregate.rows[i]["Membro"].v)
    /\ \A j \in DOMAIN Cleaned.rows :
         (Cleaned.rows[j]["Membro"].k = "str"
            /\ j \in Matching(Cleaned.rows[j]["Membro"].v))
         => Cardinality({i \in DOMAIN Aggregate.rows :
                           Aggregate.rows[i]["Membro"].v
                             = Cleaned.rows[j]["Membro"].v}) = 1

\* a member with a row on the last day of the range, counted, and a row
\* without a valid start, not counted
C1_Witness ==
  /\ pc = "format_hours"
  /\ \E i \in DOMAIN Aggregate.rows : \E j, n \in DOMAIN Cleaned.rows :
       /\ Matching(Aggregate.rows[i]["Membro"].v) = {j}
       /\ Cleaned.rows[j]["Data - start"].v = end_date
       /\ Cleaned.rows[n]["Membro"].v = Aggregate.rows[i]["Membro"].v
       /\ Cleaned.rows[n]["Data - start"].k = "nat"
       /\ Aggregate.rows[i]["Duração"].v = Cleaned.rows[j]["Duração"].v

\* the table read from the file, and the table clean_data returned
Raw == disk.table

HasSeparator(c) == c.k = "str" /\ \E i \in DOMAIN c.v : c.v[i] = Separator

\* C2: clean_data returns at least as many rows as the raw table has, and
\* exactly as many if and only if no raw member field contains ';'.
C2_RowCount ==
  (pc = "sum_hours" /\ calls = <<"get_data", "clean_data">>) =>
    /\ Len(Cleaned.rows) >= Len(Raw.rows)
    /\ (Len(Cleaned.rows) = Len(Raw.rows)
          <=> \A i \in DOMAIN Raw.rows :
                ~HasSeparator(Raw.rows[i][RawMemberColumn]))

\* two raw rows, one of them with a separator, cleaned into more rows
C2_Witness ==
  /\ pc = "sum_hours" /\ calls = <<"get_data", "clean_data">>
  /\ Len(Raw.rows) = 2
  /\ HasSeparator(Raw.rows[1][RawMemberColumn])
  /\ ~HasSeparator(Raw.rows[2][RawMemberColumn])
  /\ Len(Cleaned.rows) > Len(Raw.rows)

\* the raw row a cleaned row came from: its index label is the raw position
RawOf(j) == Raw.rows[Cleaned.index[j] + 1]

\* C3: every row clean_data returns has a member that is one name, with no
\* blank at either end and no ';', and that is empty only if the member
\* field of its raw row was empty.
C3_MemberIsTrimmedName ==
  (pc = "sum_hours" /\ calls = <<"get_data", "clean_data">>) =>
    \A j \in DOMAIN Cleaned.rows :
      LET m == Cleaned.rows[j]["Membro"]
      IN  m.k = "str" =>
            /\ \A i \in DOMAIN m.v : m.v[i] # Separator
            /\ m.v # <<>> => (Head(m.v) \notin Whitespace
                                /\ Last(m.v) \notin Whitespace)
            /\ m.v = <<>> => RawOf(j)[RawMemberColumn].v = <<>>

\* the position of a member's first row in the cleaned table
FirstRow(member) ==
  CHOOSE j \in DOMAIN Cleaned.rows :
    /\ Cleaned.rows[j]["Membro"].k = "str" /\ Cleaned.rows[j]["Membro"].v = member
    /\ \A n \in 1..(j - 1) :
         ~(Cleaned.rows[n]["Membro"].k = "str" /\ Cleaned.rows[n]["Membro"].v = member)

\* C4: the rows sum_hours returns are in non-increasing order of duration,
\* and members of equal duration are in the order of their first rows in the
\* cleaned table.
C4_SortedStable ==
  pc = "format_hours" =>
    \A i, n \in DOMAIN Aggregate.rows :
      i < n =>
        /\ Aggregate.rows[i]["Duração"].v >= Aggregate.rows[n]["Duração"].v
        /\ Aggregate.rows[i]["Duração"].v = Aggregate.rows[n]["Duração"].v
             => FirstRow(Aggregate.rows[i]["Membro"].v)
                  < FirstRow(Aggregate.rows[n]["Membro"].v)

\* the text of a duration: "{H}h{MM}min"
Rendered(h, mm) ==
  FormatInt(h) \o <<"h">> \o FormatInt02(mm) \o <<"m", "i", "n">>

\* floor(x) and the fraction x - floor(x), in ticks, of x = ticks /
\* TicksPerHour
Floor(x) == CHOOSE h \in 0..x : h * TicksPerHour <= x /\ x < (h + 1) * TicksPerHour
FractionTicks(x) == x - Floor(x) * TicksPerHour

\* C5: format_hours renders x >= 0 as floor(x) 'h', then
\* round((x - floor(x)) * 60) on two digits, then 'min'; 7.5 gives '7h30min'
\* and 0 gives '0h00min'.
C5_MinutesRounded ==
  [][pc = "format_hours" =>
       \A i \in DOMAIN heap[total_hours].rows :
         LET x == heap[total_hours].rows[i]["Duração"].v
             out == heap'[total_hours].rows[i]["Total de Horas"].v
         IN  /\ out = Rendered(Floor(x), Round(FractionTicks(x) * MinutesPerHour, TicksPerHour))
             /\ x = Dur(7, 1, 2) => out = <<"7", "h", "3", "0", "m", "i", "n">>
             /\ x = 0 => out = <<"0", "h", "0", "0", "m", "i", "n">>]_vars

\* the whole weeks from start_date to now
WholeWeeks ==
  CHOOSE w \in (-MaxWeeks - 2)..(MaxWeeks + 2) :
    /\ w * DaysPerWeek * DayParts <= now - start_date
    /\ now - start_date < (w + 1) * DaysPerWeek * DayParts

\* C6: add_expected_hours gives every row the same 'Horas Esperadas', the
\* whole weeks from start_date to now less one, times 6, and leaves the rest
\* of the row alone; from 2025-01-01 to any time of 2025-02-12 it is 30.
C6_ExpectedHours ==
  [][pc = "add_expected_hours" =>
       /\ Len(heap'[total_hours].rows) = Len(heap[total_hours].rows)
       /\ \A i \in DOMAIN heap[total_hours].rows :
            /\ heap'[total_hours].rows[i]["Horas Esperadas"]
                 = Num((WholeWeeks - 1) * 6)
            /\ \A c \in Range(heap[total_hours].columns) :
                 heap'[total_hours].rows[i][c] = heap[total_hours].rows[i][c]
            /\ (start_date = 0 /\ now \in (42 * DayParts)..(43 * DayParts - 1))
                 => heap'[total_hours].rows[i]["Horas Esperadas"].v = 30]_vars

\* two members with different totals, both expected 30 hours on 2025-02-12
C6_Witness ==
  /\ pc = "print_df"
  /\ start_date = 0 /\ now = 42 * DayParts + 1
  /\ Len(heap[total_hours].rows) = 2
  /\ heap[total_hours].rows[1]["Total de Horas"]
       # heap[total_hours].rows[2]["Total de Horas"]
  /\ \A i \in 1..2 : heap[total_hours].rows[i]["Horas Esperadas"].v = 30

\* C7: clean_data leaves the table the Loader holds as it was read, and
\* what it returns is another object.
C7_LoaderResultUnchanged ==
  /\ self_data # None => heap[self_data] = Raw
  /\ pc \in {"sum_hours", "format_hours", "add_expected_hours", "print_df",
             "print_total_hours", "export_to_pdf", "print_exported"}
       => df # self_data

\* both table dumps are on the console
DumpsPrinted == {"df", "total_hours"} \subseteq Range(stdout)
NoDumpPrinted == {"df", "total_hours"} \cap Range(stdout) = {}

\* C8: a run ends with both console dumps and the document produced, or
\* with none of them.
C8_AllOrNothing ==
  pc = "done" =>
    \/ DumpsPrinted /\ pdf = "written"
    \/ NoDumpPrinted /\ pdf = "absent"

Stages ==
  <<"get_data", "clean_data", "sum_hours", "format_hours",
    "add_expected_hours", "export_to_pdf">>

\* the run ended after a stage raised
Failed == pc = "done" /\ "exported" \notin Range(stdout)

\* C9: when a stage fails no later stage runs, one diagnostic is printed and
\* the run exits with a non-zero status.
C9_FailureAborts ==
  Failed =>
    /\ calls = SubSeq(Stages, 1, Len(calls))
    /\ Cardinality({i \in DOMAIN stdout : stdout[i] = "Erro"}) = 1
    /\ Last(stdout) = "Erro"
    /\ exit_code # <<0>>

\* the file loads and its table lacks a required column (the member column
\* under either of its names)
LacksColumn ==
  /\ disk.exists /\ disk.parses
  /\ \E c \in Range(RequiredColumns) :
       c \notin {RenameColumn(x) : x \in Range(Raw.columns)}

\* C10: when the loaded table lacks a required column clean_data fails, and
\* neither sum_hours, format_hours, add_expected_hours nor export_to_pdf is
\* ever invoked.
C10_SchemaErrorBeforeAggregation ==
  LacksColumn =>
    /\ "clean_data" \in Range(calls) => pc \in {"except", "end", "done"}
    /\ Range(calls) \subseteq {"get_data", "clean_data"}
    /\ total_hours = None
    /\ pc = "done" => stdout = <<"Erro">>

\* a run on a table that lacks the duration column, ended by the diagnostic
C10_Witness ==
  /\ pc = "done" /\ LacksColumn
  /\ "Duração" \notin Range(Raw.columns)
  /\ Raw.rows # <<>>
  /\ calls = <<"get_data", "clean_data">>
  /\ stdout = <<"Erro">>

====
